---- MODULE Spec2Model ----
(***************************************************************************)
(* pickle_to_txt (src/src/picke_to_txt.py, duplicated in                   *)
(* src/src/get_results.py): load a pickled list of per-frame detection     *)
(* results and write one text file <frame_id>.txt per frame, one line per  *)
(* (box, score) pair.                                                      *)
(*                                                                         *)
(* The model is the routine as a sequential state machine over a small     *)
(* file system: the source pickle, the output directory and the text files *)
(* in it.  Every statement that can raise has a failing twin action; all   *)
(* of them lead to the single except clause.                               *)
(***************************************************************************)
EXTENDS Integers, Sequences, FiniteSets, TLC

\* ------------------------------------------------------------------ bounds
MaxFrames == 2
MaxBoxes == 2

\* ------------------------------------------------------------------ values
FrameIds == {"000001", "000002"}

\* No exception.
None == "None"

\* Python values a call can return: None, or an int.
PyNone == <<"None">>

PyInt(n) == <<"int", n>>

\* The call has not returned yet.
Running == <<"running">>

\* The content of a name no file has; a file is the sequence of its characters.
NoFile == <<"(no file)">>

\* No open file object.
Closed == <<>>

\* The output file of a frame: os.path.join(output_dir, f"{frame_id}.txt").
TxtFile(frame_id) == <<"output_dir", frame_id, ".txt">>

FileNames == {TxtFile(id) : id \in FrameIds}

\* A file some earlier program left in the output directory.
Stale == <<"7", " ", "7", "\n">>

\* ---------------------------------------------------------------- inputs
\* The numbers of box j of record i: seven distinct values, the rotation
\* negative; the score of the pair is an eighth one.
Value(i, j, f) == ((i - 1) * (MaxBoxes + 1) + (j - 1)) * 8 + f

GoodBox(i, j) == [f \in 1..7 |-> IF f = 7 THEN 0 - Value(i, j, 7) ELSE Value(i, j, f)]

\* A malformed row: 6 numbers instead of 7 at an odd place of the list, 8 at
\* an even one.
BadLen(j) == IF j % 2 = 1 THEN 6 ELSE 8

BadBox(i, j) == [f \in 1..BadLen(j) |-> Value(i, j, f)]

Score(i, j) == Value(i, j, 8)

\* boxes_lidar of record i with n rows, at most one of them malformed.
BoxLists(i, n) ==
    {[j \in 1..n |-> GoodBox(i, j)]}
    \cup {[j \in 1..n |-> IF j = b THEN BadBox(i, j) ELSE GoodBox(i, j)] : b \in 1..n}

\* score of record i: as many numbers as rows, or one less, or one more.
ScoreLists(i, n) ==
    {[j \in 1..m |-> Score(i, j)] : m \in {n - 1, n, n + 1} \cap Nat}

\* The dicts record i of the list may be, with at most b rows: all three
\* keys, or one of them missing.
FullRecords(i, b) ==
    UNION {
        {[frame_id |-> id, boxes_lidar |-> bl, score |-> sl] :
            id \in FrameIds, bl \in BoxLists(i, n), sl \in ScoreLists(i, n)}
        : n \in 0..b}

PartRecords(i) ==
    { [boxes_lidar |-> <<>>, score |-> <<>>],
      [frame_id |-> "000001", score |-> <<>>],
      [frame_id |-> "000001", boxes_lidar |-> <<>>] }

Records(i, b) == FullRecords(i, b) \cup PartRecords(i)

Rows(r) == IF "boxes_lidar" \in DOMAIN r THEN Len(r.boxes_lidar) ELSE 0

RECURSIVE TotalRows(_)
TotalRows(d) == IF d = <<>> THEN 0 ELSE Rows(d[1]) + TotalRows(Tail(d))

\* The lists of n records holding at most MaxBoxes rows between them.
RECURSIVE ListsOf(_)
ListsOf(n) ==
    IF n = 0 THEN {<<>>}
    ELSE UNION {
        {Append(d, r) : r \in Records(n, MaxBoxes - TotalRows(d))}
        : d \in ListsOf(n - 1)}

ResultSets == UNION {ListsOf(n) : n \in 0..MaxFrames}

\* What the source path holds: a pickled list, or nothing pickle.load accepts.
Sources ==
    {[readable |-> TRUE, list |-> d] : d \in ResultSets}
    \cup {[readable |-> FALSE, list |-> <<>>]}

\* ------------------------------------------------------------- formatting
Digits == <<"0", "1", "2", "3", "4", "5", "6", "7", "8", "9">>

RECURSIVE StrNat(_)
StrNat(n) ==
    IF n < 10 THEN <<Digits[n + 1]>>
    ELSE StrNat(n \div 10) \o <<Digits[(n % 10) + 1]>>

\* str(v) of a number, as the f-string renders it.
Str(v) == IF v < 0 THEN <<"-">> \o StrNat(0 - v) ELSE StrNat(v)

\* x, y, z, length, width, height, rotation = box
UnpackOk(box) == Len(box) = 7

\* (mutation) length and width written in the other order
FormatLineWidthFirst(box, score) ==
    Str(box[1]) \o <<" ">> \o Str(box[2]) \o <<" ">> \o Str(box[3]) \o <<" ">>
    \o Str(box[5]) \o <<" ">> \o Str(box[4]) \o <<" ">> \o Str(box[6]) \o <<" ">>
    \o Str(box[7]) \o <<" ">> \o Str(score) \o <<"\n">>

\* f"{x} {y} {z} {length} {width} {height} {rotation} {score}\n"
FormatLine(box, score) ==
    Str(box[1]) \o <<" ">> \o Str(box[2]) \o <<" ">> \o Str(box[3]) \o <<" ">>
    \o Str(box[4]) \o <<" ">> \o Str(box[5]) \o <<" ">> \o Str(box[6]) \o <<" ">>
    \o Str(box[7]) \o <<" ">> \o Str(score) \o <<"\n">>

Min(a, b) == IF a < b THEN a ELSE b

\* zip(boxes_lidar, scores) yields this many pairs.
ZipLen(sample) == Min(Len(sample.boxes_lidar), Len(sample.score))

\* sample['frame_id'], sample['boxes_lidar'], sample['score'] all succeed.
HasFields(sample) == {"frame_id", "boxes_lidar", "score"} \subseteq DOMAIN sample

\* ------------------------------------------------------------------ state
VARIABLES
    source,     \* what pickle_file holds (never written by the routine)
    dirExists,  \* output_dir exists
    files,      \* file name -> its characters, or NoFile
    dir0,       \* dirExists when the current run started
    files0,     \* files when the current run started
    pc,         \* position of the run in pickle_to_txt
    data,       \* the unpickled list, empty before the load
    i,          \* frames finished so far (enumerate's i)
    j,          \* pairs of the current frame consumed so far (enumerate's j)
    txt_f,      \* the name of the open text file, Closed when none is
    exc,        \* the exception raised in the current run, None when none
    errors,     \* "An error occurred" messages printed by the current run
    completed,  \* "Completed writing" messages printed by the current run
    ret         \* what the call returned, Running until it returns

vars == <<source, dirExists, files, dir0, files0, pc, data, i, j, txt_f, exc,
          errors, completed, ret>>

Sample == data[i + 1]

\* The call of __main__: any source, and an output directory that is absent,
\* or present with a file of an earlier program under the first frame id.
Init ==
    /\ source \in Sources
    /\ dirExists \in BOOLEAN
    /\ files = [f \in FileNames |->
                    IF dirExists /\ f = TxtFile("000001") THEN Stale ELSE NoFile]
    /\ dir0 = dirExists
    /\ files0 = files
    /\ pc = "load"
    /\ data = <<>>
    /\ i = 0
    /\ j = 0
    /\ txt_f = Closed
    /\ exc = None
    /\ errors = 0
    /\ completed = 0
    /\ ret = Running

\* An exception leaves the try block: the with statement closes the file.
Raise(e) ==
    /\ exc' = e
    /\ txt_f' = Closed
    /\ pc' = "except"

\* with open(pickle_file, 'rb') as f: data = pickle.load(f)
LoadOk ==
    /\ pc = "load"
    /\ source.readable
    /\ data' = source.list
    /\ pc' = "makedirs"
    /\ UNCHANGED <<source, dirExists, files, dir0, files0, i, j, txt_f, exc,
                   errors, completed, ret>>

\* (mutation) the output directory made before the pickle is loaded
LoadFailAfterMakeDirs ==
    /\ pc = "load"
    /\ ~source.readable
    /\ dirExists' = TRUE
    /\ Raise("LoadError")
    /\ UNCHANGED <<source, files, dir0, files0, data, i, j,
                   errors, completed, ret>>

LoadFail ==
    /\ pc = "load"
    /\ ~source.readable
    /\ Raise("LoadError")
    /\ UNCHANGED <<source, dirExists, files, dir0, files0, data, i, j,
                   errors, completed, ret>>

\* (mutation) the empty list returned from before the directory is made
MakeDirsSkippedWhenEmpty ==
    /\ pc = "makedirs"
    /\ dirExists' = (dirExists \/ Len(data) > 0)
    /\ pc' = "check"
    /\ UNCHANGED <<source, files, dir0, files0, data, i, j, txt_f, exc,
                   errors, completed, ret>>

\* os.makedirs(output_dir, exist_ok=True)
MakeDirsOk ==
    /\ pc = "makedirs"
    /\ dirExists' = TRUE
    /\ pc' = "check"
    /\ UNCHANGED <<source, files, dir0, files0, data, i, j, txt_f, exc,
                   errors, completed, ret>>

MakeDirsFail ==
    /\ pc = "makedirs"
    /\ ~dirExists
    /\ Raise("OSError")
    /\ UNCHANGED <<source, dirExists, files, dir0, files0, data, i, j,
                   errors, completed, ret>>

\* if not data: return
ReturnEmpty ==
    /\ pc = "check"
    /\ Len(data) = 0
    /\ pc' = "done"
    /\ ret' = PyNone
    /\ UNCHANGED <<source, dirExists, files, dir0, files0, data, i, j, txt_f,
                   exc, errors, completed>>

EnterLoop ==
    /\ pc = "check"
    /\ Len(data) > 0
    /\ pc' = "loop"
    /\ UNCHANGED <<source, dirExists, files, dir0, files0, data, i, j, txt_f,
                   exc, errors, completed, ret>>

\* for i, sample in enumerate(data): the three field reads
NextFrame ==
    /\ pc = "loop"
    /\ i < Len(data)
    /\ HasFields(Sample)
    /\ pc' = "open"
    /\ UNCHANGED <<source, dirExists, files, dir0, files0, data, i, j, txt_f,
                   exc, errors, completed, ret>>

\* (mutation) a record without its keys is skipped, the loop goes on
FieldMissingSkipped ==
    /\ pc = "loop"
    /\ i < Len(data)
    /\ ~HasFields(Sample)
    /\ i' = i + 1
    /\ UNCHANGED <<source, dirExists, files, dir0, files0, pc, data, j, txt_f,
                   exc, errors, completed, ret>>

FieldMissing ==
    /\ pc = "loop"
    /\ i < Len(data)
    /\ ~HasFields(Sample)
    /\ Raise("KeyError")
    /\ UNCHANGED <<source, dirExists, files, dir0, files0, data, i, j,
                   errors, completed, ret>>

\* the loop ran out of samples: the function falls off its end
LoopEnd ==
    /\ pc = "loop"
    /\ i = Len(data)
    /\ pc' = "done"
    /\ ret' = PyNone
    /\ UNCHANGED <<source, dirExists, files, dir0, files0, data, i, j, txt_f,
                   exc, errors, completed>>

\* (mutation) the file opened for appending, 'a', instead of 'w'
OpenAppend ==
    /\ pc = "open"
    /\ files' = [files EXCEPT ![TxtFile(Sample.frame_id)] =
                    IF @ = NoFile THEN <<>> ELSE @]
    /\ txt_f' = TxtFile(Sample.frame_id)
    /\ j' = 0
    /\ pc' = "zip"
    /\ UNCHANGED <<source, dirExists, dir0, files0, data, i, exc, errors,
                   completed, ret>>

\* with open(txt_file, 'w') as txt_f: creates or truncates
OpenOk ==
    /\ pc = "open"
    /\ files' = [files EXCEPT ![TxtFile(Sample.frame_id)] = <<>>]
    /\ txt_f' = TxtFile(Sample.frame_id)
    /\ j' = 0
    /\ pc' = "zip"
    /\ UNCHANGED <<source, dirExists, dir0, files0, data, i, exc, errors,
                   completed, ret>>

OpenFail ==
    /\ pc = "open"
    /\ Raise("OSError")
    /\ UNCHANGED <<source, dirExists, files, dir0, files0, data, i, j,
                   errors, completed, ret>>

\* (mutation) the line replaces the text of the file instead of following it
WriteBoxOverwrites ==
    /\ pc = "zip"
    /\ j < ZipLen(Sample)
    /\ UnpackOk(Sample.boxes_lidar[j + 1])
    /\ files' = [files EXCEPT ![txt_f] =
                    FormatLine(Sample.boxes_lidar[j + 1], Sample.score[j + 1])]
    /\ j' = j + 1
    /\ UNCHANGED <<source, dirExists, dir0, files0, pc, data, i, txt_f, exc,
                   errors, completed, ret>>

\* one turn of the inner loop: unpack the box, format the line, write it
WriteBox ==
    /\ pc = "zip"
    /\ j < ZipLen(Sample)
    /\ UnpackOk(Sample.boxes_lidar[j + 1])
    /\ files' = [files EXCEPT ![txt_f] =
                    @ \o FormatLine(Sample.boxes_lidar[j + 1], Sample.score[j + 1])]
    /\ j' = j + 1
    /\ UNCHANGED <<source, dirExists, dir0, files0, pc, data, i, txt_f, exc,
                   errors, completed, ret>>

UnpackFail ==
    /\ pc = "zip"
    /\ j < ZipLen(Sample)
    /\ ~UnpackOk(Sample.boxes_lidar[j + 1])
    /\ Raise("ValueError")
    /\ UNCHANGED <<source, dirExists, files, dir0, files0, data, i, j,
                   errors, completed, ret>>

WriteFail ==
    /\ pc = "zip"
    /\ j < ZipLen(Sample)
    /\ UnpackOk(Sample.boxes_lidar[j + 1])
    /\ Raise("OSError")
    /\ UNCHANGED <<source, dirExists, files, dir0, files0, data, i, j,
                   errors, completed, ret>>

\* zip is exhausted: the with block closes the file, the frame is complete
CloseFile ==
    /\ pc = "zip"
    /\ j = ZipLen(Sample)
    /\ txt_f' = Closed
    /\ completed' = completed + 1
    /\ i' = i + 1
    /\ pc' = "loop"
    /\ UNCHANGED <<source, dirExists, files, dir0, files0, data, j, exc,
                   errors, ret>>

\* The exceptions the statements of the try block raise: pickle.load and the
\* open before it (LoadError: FileNotFoundError, UnpicklingError, EOFError),
\* os.makedirs, open and write (OSError), a missing key, a bad unpacking.
Exceptions == {"LoadError", "OSError", "KeyError", "ValueError"}

\* (mutation) except OSError as e
CatchesOSError(e) == e = "OSError"

\* except Exception as e
Catches(e) == e \in Exceptions

\* The except clause prints the message and the function falls off its end;
\* an exception the clause does not name leaves the function.
Handler ==
    /\ pc = "except"
    /\ IF Catches(exc)
       THEN /\ errors' = errors + 1
            /\ pc' = "error"
            /\ ret' = PyNone
       ELSE /\ pc' = "propagated"
            /\ UNCHANGED <<errors, ret>>
    /\ UNCHANGED <<source, dirExists, files, dir0, files0, data, i, j, txt_f,
                   exc, completed>>

\* the script is run again on the same paths
Restart ==
    /\ pc \in {"done", "error"}
    /\ dir0' = dirExists
    /\ files0' = files
    /\ pc' = "load"
    /\ data' = <<>>
    /\ i' = 0
    /\ j' = 0
    /\ txt_f' = Closed
    /\ exc' = None
    /\ errors' = 0
    /\ completed' = 0
    /\ ret' = Running
    /\ UNCHANGED <<source, dirExists, files>>

Next ==
    \/ LoadOk
    \/ LoadFail
    \/ MakeDirsOk
    \/ MakeDirsFail
    \/ ReturnEmpty
    \/ EnterLoop
    \/ NextFrame
    \/ FieldMissing
    \/ LoopEnd
    \/ OpenOk
    \/ OpenFail
    \/ WriteBox
    \/ UnpackFail
    \/ WriteFail
    \/ CloseFile
    \/ Handler
    \/ Restart

Spec == Init /\ [][Next]_vars

\* ---------------------------------------------------- reading the state
\* The lines of a text: one per newline.
NumLines(text) == Cardinality({p \in 1..Len(text) : text[p] = "\n"})

RECURSIVE SplitOn(_, _)
\* The pieces of text between occurrences of sep (a trailing sep ends the
\* last piece and starts no new one).
SplitOn(text, sep) ==
    IF text = <<>> THEN <<>>
    ELSE LET hits == {p \in 1..Len(text) : text[p] = sep}
         IN  IF hits = {} THEN <<text>>
             ELSE LET p == CHOOSE q \in hits : \A r \in hits : q <= r
                  IN  <<SubSeq(text, 1, p - 1)>> \o SplitOn(SubSeq(text, p + 1, Len(text)), sep)

DigitValue(c) == CHOOSE d \in 0..9 : Digits[d + 1] = c

IsDigit(c) == \E d \in 0..9 : Digits[d + 1] = c

RECURSIVE ParseNat(_)
ParseNat(t) ==
    IF Len(t) = 1 THEN DigitValue(t[1])
    ELSE 10 * ParseNat(SubSeq(t, 1, Len(t) - 1)) + DigitValue(t[Len(t)])

\* A token is a decimal number: an optional minus sign and digits.
IsNumber(t) ==
    LET body == IF t # <<>> /\ t[1] = "-" THEN Tail(t) ELSE t
    IN  body # <<>> /\ \A p \in 1..Len(body) : IsDigit(body[p])

ParseNum(t) == IF t[1] = "-" THEN 0 - ParseNat(Tail(t)) ELSE ParseNat(t)

AllFields(d) == \A k \in 1..Len(d) : HasFields(d[k])

Aligned(d) == \A k \in 1..Len(d) : Len(d[k].boxes_lidar) = Len(d[k].score)

SevenFields(d) ==
    \A k \in 1..Len(d) : \A b \in 1..Len(d[k].boxes_lidar) : Len(d[k].boxes_lidar[b]) = 7

\* The data model of the specification: every record whole and aligned.
WellFormed(d) == AllFields(d) /\ Aligned(d) /\ SevenFields(d)

DistinctIds(d) ==
    \A k, l \in 1..Len(d) : k # l => d[k].frame_id # d[l].frame_id

\* The files the records of d name.
Named(d) == {TxtFile(d[k].frame_id) : k \in 1..Len(d)}

\* The last record of d naming file f.
LastNaming(d, f) ==
    CHOOSE k \in 1..Len(d) :
        /\ TxtFile(d[k].frame_id) = f
        /\ \A l \in 1..Len(d) : TxtFile(d[l].frame_id) = f => l <= k

Completed == pc = "done"

ErrorReported == pc = "error"

Returned == Completed \/ ErrorReported

\* The text pickle_to_txt writes for the first n pairs of record r.
RECURSIVE TextOf(_, _)
TextOf(r, n) ==
    IF n = 0 THEN <<>>
    ELSE TextOf(r, n - 1) \o FormatLine(r.boxes_lidar[n], r.score[n])

Prefix(d, n) == SubSeq(d, 1, n)

\* No os.makedirs, open or write of the current run failed.
NoIOFailure == exc # "OSError"

\* --------------------------------------------------------------- claims

\* C1 as stated: after a completed run over a well formed list of N frames
\* there are N output files, and the file of frame i has exactly Bi lines.
C1_NFilesBiLines ==
    (Completed /\ WellFormed(data)) =>
        /\ Cardinality({f \in Named(data) : files[f] # NoFile}) = Len(data)
        /\ \A k \in 1..Len(data) :
                NumLines(files[TxtFile(data[k].frame_id)]) = Len(data[k].boxes_lidar)

\* C1 amended: a completed run leaves one file per distinct frame_id (N
\* files when the ids are pairwise distinct), each holding as many lines as
\* the last frame with that id has (box, score) pairs, and leaves every other
\* file of the directory as it was.
C1_FilePerFrameId ==
    Completed =>
        /\ \A f \in Named(data) :
                /\ files[f] # NoFile
                /\ NumLines(files[f]) = ZipLen(data[LastNaming(data, f)])
        /\ \A f \in FileNames \ Named(data) : files[f] = files0[f]
        /\ DistinctIds(data) =>
                Cardinality({f \in Named(data) : files[f] # NoFile}) = Len(data)

\* C1 witness: a completed run over two frames with different ids, each with
\* a box, one of them written over a file that was there before.
C1_Witness ==
    /\ Completed
    /\ Len(data) = 2
    /\ DistinctIds(data)
    /\ \A k \in 1..2 : ZipLen(data[k]) = 1
    /\ \E f \in FileNames : files0[f] = Stale

\* C2 as stated: a run over a list with a frame whose boxes and scores differ
\* in length ends in the error-reported outcome, never in the completed one.
C2_MismatchIsReported ==
    (Returned /\ source.readable /\ AllFields(source.list) /\ ~Aligned(source.list))
        => ErrorReported /\ errors = 1

\* C3 as stated: over an empty list the run creates the directory, touches
\* no file, reports no error and returns.
C3_EmptyNoError ==
    (source.readable /\ source.list = <<>>) =>
        /\ pc \in {"load", "makedirs", "check", "done"}
        /\ files = files0
        /\ Completed => dirExists /\ errors = 0

\* C3 amended: over an empty list the run never enters the loop and touches
\* no file; when os.makedirs succeeds it returns with the directory in place
\* and no error reported; when os.makedirs fails the directory is absent and
\* the error is reported once.
C3_EmptyCreatesDirOnly ==
    (source.readable /\ source.list = <<>>) =>
        /\ pc \in {"load", "makedirs", "check", "except", "done", "error"}
        /\ files = files0
        /\ Completed => dirExists /\ errors = 0 /\ exc = None
        /\ pc \in {"except", "error"} => exc = "OSError" /\ ~dirExists /\ ~dir0
        /\ ErrorReported => errors = 1
        /\ dir0 => pc \notin {"except", "error"}

\* C3 witness: the run over an empty list has returned, having created the
\* directory.
C3_Witness ==
    /\ source.readable
    /\ source.list = <<>>
    /\ Completed
    /\ ~dir0
    /\ dirExists

\* C4: after a completed run every file a frame names holds exactly the text
\* of the last frame with that id, whatever the file held before the run.
C4_ContentFromInputOnly ==
    Completed =>
        \A f \in Named(data) :
            LET r == source.list[LastNaming(source.list, f)]
            IN  files[f] = TextOf(r, ZipLen(r))

\* C4 witness: a completed run rewrote a partial file that an earlier, failed
\* run had left.
C4_Witness ==
    /\ Completed
    /\ \E f \in Named(data) :
            /\ files0[f] # NoFile
            /\ files0[f] # Stale
            /\ Len(files0[f]) > 0
            /\ Len(files0[f]) < Len(files[f])

\* C5 as stated: a completed run over N frames returns the integer N.
C5_ReturnsFrameCount == Completed => ret = PyInt(Len(data))

\* The numbers a line holds: its tokens between spaces, parsed.
Tokens(line) == SplitOn(line, " ")

LineIsPair(line, box, score) ==
    /\ Len(Tokens(line)) = 8
    /\ \A t \in 1..8 : IsNumber(Tokens(line)[t])
    /\ \A t \in 1..7 : ParseNum(Tokens(line)[t]) = box[t]
    /\ ParseNum(Tokens(line)[8]) = score
    /\ line[Len(line)] # " "
    /\ line[1] # " "

\* C6 as stated: after a completed run over a well formed list, line j of
\* the file of every frame is box j and score j of that frame.
C6_EveryFrameItsLines ==
    (Completed /\ WellFormed(data)) =>
        \A k \in 1..Len(data) :
            LET lines == SplitOn(files[TxtFile(data[k].frame_id)], "\n")
            IN  /\ Len(lines) = Len(data[k].boxes_lidar)
                /\ \A b \in 1..Len(lines) :
                        LineIsPair(lines[b], data[k].boxes_lidar[b], data[k].score[b])

\* C6 amended: after a completed run, the file of a frame_id holds one line
\* per (box, score) pair of the last frame with that id, in input order:
\* eight numbers between single spaces, the seven of the box in order and
\* then the score, every line ended by a newline.
C6_LinesOfLastFrame ==
    Completed =>
        \A f \in Named(data) :
            LET r == data[LastNaming(data, f)]
                lines == SplitOn(files[f], "\n")
            IN  /\ Len(lines) = ZipLen(r)
                /\ NumLines(files[f]) = ZipLen(r)
                /\ files[f] # <<>> => files[f][Len(files[f])] = "\n"
                /\ \A b \in 1..Len(lines) :
                        LineIsPair(lines[b], r.boxes_lidar[b], r.score[b])

\* C6 witness: a completed run wrote a file of two lines.
C6_Witness ==
    /\ Completed
    /\ \E f \in Named(data) : NumLines(files[f]) = 2

\* Record k of d is the first one lacking a key.
FirstPartial(d, k) ==
    /\ k \in 1..Len(d)
    /\ ~HasFields(d[k])
    /\ \A l \in 1..(k - 1) : HasFields(d[l])

\* The run stopped at record k with a reported KeyError: nothing opened for
\* record k or later, the files of the records before k complete.
StoppedAtRecord(d, k) ==
    /\ ErrorReported
    /\ errors = 1
    /\ i = k - 1
    /\ completed = k - 1
    /\ txt_f = Closed
    /\ \A f \in Named(Prefix(d, k - 1)) :
            LET r == d[LastNaming(Prefix(d, k - 1), f)]
            IN  files[f] = TextOf(r, ZipLen(r))
    /\ \A f \in FileNames \ Named(Prefix(d, k - 1)) : files[f] = files0[f]

\* C7 as stated: when record k is the first lacking a key and no file
\* operation fails, the run stops at record k.
C7_StopsAtPartialRecord ==
    \A k \in 1..MaxFrames :
        (Returned /\ source.readable /\ FirstPartial(source.list, k) /\ NoIOFailure)
            => StoppedAtRecord(source.list, k)

\* Every box paired with a score in the first n records of d has seven fields.
Unpackable(d, n) ==
    \A l \in 1..n :
        \A b \in 1..Len(d[l].boxes_lidar) :
            b <= Len(d[l].score) => Len(d[l].boxes_lidar[b]) = 7

\* C7 amended: when record k is the first lacking a key, every box paired
\* with a score in the records before it has seven fields, and no file
\* operation fails, the run stops at record k.
C7_StopsAtFirstDefect ==
    \A k \in 1..MaxFrames :
        (/\ Returned
         /\ source.readable
         /\ FirstPartial(source.list, k)
         /\ Unpackable(source.list, k - 1)
         /\ NoIOFailure)
            => exc = "KeyError" /\ StoppedAtRecord(source.list, k)

\* C7 witness: the run stopped at the second record, which lacks a key,
\* after writing a line for the first.
C7_Witness ==
    /\ ErrorReported
    /\ exc = "KeyError"
    /\ i = 1
    /\ ZipLen(data[1]) > 0
    /\ files[TxtFile(data[1].frame_id)] # files0[TxtFile(data[1].frame_id)]

\* Steps a run may still take: three per frame plus its pairs, the three
\* before the loop, one for the except clause.
PerFrame == MaxBoxes + 3

Rank ==
    CASE pc = "load" -> Len(source.list) * PerFrame + 6
      [] pc = "makedirs" -> Len(data) * PerFrame + 5
      [] pc = "check" -> Len(data) * PerFrame + 4
      [] pc = "loop" -> (Len(data) - i) * PerFrame + 3
      [] pc = "open" -> (Len(data) - i) * PerFrame + 2
      [] pc = "zip" -> (Len(data) - i) * PerFrame + 1 - j
      [] pc = "except" -> 1
      [] OTHER -> 0

\* A run is at one of the statements of pickle_to_txt or has returned; once
\* returned it has printed the error message exactly when an exception was
\* raised, and exactly once.
C8_Outcome ==
    /\ pc \in {"load", "makedirs", "check", "loop", "open", "zip", "except",
               "done", "error"}
    /\ errors = (IF ErrorReported THEN 1 ELSE 0)
    /\ Completed => exc = None /\ ret = PyNone
    /\ ErrorReported => exc \in Exceptions /\ ret = PyNone
    /\ pc \in {"except", "error"} <=> exc # None
    /\ ~Returned => ENABLED Next

\* Every step of a run brings it nearer to returning, and after an exception
\* is raised no step touches the directory, a file or the loop counters.
C8_Step ==
    /\ ~Returned => Rank' < Rank
    /\ (exc # None /\ ~Returned) =>
            /\ UNCHANGED <<dirExists, files, i, j, completed, exc>>
            /\ txt_f' = Closed
            /\ ErrorReported'

\* C8: every run returns, completed or error-reported, and never leaves the
\* function by an exception; a failure of the load, of os.makedirs, of a key
\* read, of an unpacking or of a file operation is reported once and nothing
\* is processed after it.
C8_CaughtOnceThenStops == [](C8_Outcome) /\ [][C8_Step]_vars

\* C8 witness: a run ended by a malformed box, reported, with a frame of the
\* list still unprocessed.
C8_Witness ==
    /\ ErrorReported
    /\ exc = "ValueError"
    /\ errors = 1
    /\ i + 1 < Len(data)

\* C9: while the source cannot be loaded no run creates the directory or
\* creates, truncates or changes a file, and each run ends error-reported.
C9_LoadFailureTouchesNothing ==
    ~source.readable =>
        /\ dirExists = dir0
        /\ files = files0
        /\ pc \in {"load", "except", "error"}
        /\ pc # "load" => exc = "LoadError"

\* C9 witness: a run on an unreadable source has returned and the output
\* directory is still absent.
C9_Witness ==
    /\ ~source.readable
    /\ ErrorReported
    /\ errors = 1
    /\ ~dirExists

\* Box b of record k of d is malformed, and everything the run meets before
\* it is well formed.
FirstBadBox(d, k, b) ==
    /\ k \in 1..Len(d)
    /\ AllFields(Prefix(d, k))
    /\ WellFormed(Prefix(d, k - 1))
    /\ b \in 1..Len(d[k].boxes_lidar)
    /\ Len(d[k].boxes_lidar[b]) # 7
    /\ \A c \in 1..(b - 1) : Len(d[k].boxes_lidar[c]) = 7

\* The run stopped at box b of record k with a reported error: the file of
\* record k closed and holding the lines of the boxes before b, no file of a
\* later record touched.
StoppedAtBox(d, k, b) ==
    /\ ErrorReported
    /\ errors = 1
    /\ i = k - 1
    /\ j = b - 1
    /\ txt_f = Closed
    /\ files[TxtFile(d[k].frame_id)] = TextOf(d[k], b - 1)
    /\ NumLines(files[TxtFile(d[k].frame_id)]) = b - 1
    /\ \A f \in FileNames \ Named(Prefix(d, k)) : files[f] = files0[f]

\* C10 as stated: when box b of record k is the first malformed one and no
\* file operation fails, the run stops at that box.
C10_StopsAtBadBox ==
    \A k \in 1..MaxFrames : \A b \in 1..MaxBoxes :
        (Returned /\ source.readable /\ FirstBadBox(source.list, k, b) /\ NoIOFailure)
            => StoppedAtBox(source.list, k, b)

\* C10, what the code does: the run stops at the first malformed box only
\* when zip pairs it with a score (record k has at least b scores); a shorter
\* score list hides the box and the run goes on.
C10_StopsAtPairedBadBox ==
    \A k \in 1..MaxFrames : \A b \in 1..MaxBoxes :
        (/\ Returned
         /\ source.readable
         /\ FirstBadBox(source.list, k, b)
         /\ Len(source.list[k].score) >= b
         /\ NoIOFailure)
            => exc = "ValueError" /\ StoppedAtBox(source.list, k, b)

\* C10, the case reached: the run stopped at the second box of a frame, the first one
\* written, over a file that held something else before.
C10_Witness ==
    /\ ErrorReported
    /\ exc = "ValueError"
    /\ j = 1
    /\ NumLines(files[TxtFile(data[i + 1].frame_id)]) = 1
    /\ files0[TxtFile(data[i + 1].frame_id)] = Stale

====
